---- MODULE Spec2Model ----
(***************************************************************************)
(* State-continuity and autonomous-scheduling engine of the PRATHUAN OS    *)
(* dashboard: src/App.tsx (two App components: the autonomous one, lines   *)
(* 11-399, and the manual one, lines 408-724) and the caption service      *)
(* (src/services/geminiService.ts and its other version,                   *)
(* src/unnamed/part_000).                                                  *)
(*                                                                         *)
(* Time is counted in whole seconds since the component was constructed    *)
(* (startTimeRef).  One action is one event-loop task: a timer callback, a *)
(* DOM event handler, the arrival of a promise result.  The continuation   *)
(* of an `await` on an already settled promise is a microtask: it is its   *)
(* own action (Resume) and no task runs while one is queued.  React        *)
(* commits the batched state updates of a task and re-runs the effects     *)
(* whose dependencies changed before the next task, a timer callback that  *)
(* was already due excepted: it runs first.                                *)
(*                                                                         *)
(* Numbers with a fractional part are fixed-point integers, U units per    *)
(* 1.0.  A Math.random() draw is r / RandDen for r in 0 .. RandDen-1.      *)
(* A log entry is kept as its level and the template of its message; the   *)
(* id (Math.random().toString(36)) and the formatted timestamp of an       *)
(* entry are read by no operation and are left out.                        *)
(***************************************************************************)
EXTENDS Integers, Sequences, FiniteSets, TLC

\* ---------------------------------------------------------------- bounds
MaxTime == 16
MaxTimeManual == 3
MaxTimeSaturated == 31
MaxLate == 1
RandDen == 2
MaxZones == 1
MaxClicks == 2
MaxEvents == 2
MaxCalls == 2
LongRun == 1200
MaxDowntime == 6

\* ------------------------------------------------------ program constants
CapAuto == 100
CapManual == 50
TickPeriod == 1
MissionPeriod == 15
Hundred == 100

U == 10 ^ 5

Min(a, b) == IF a < b THEN a ELSE b

Rand == 0 .. (RandDen - 1)

\* Math.random() * span, for the draw r / RandDen and span in units
Scaled(r, span) == (r * span) \div RandDen

\* ------------------------------------------------------------- the log
Levels == {"INFO", "SUCCESS", "WARNING", "ERROR", "SOVEREIGN"}

LogEntry(message, level) == [level |-> level, message |-> message]

\* addLog pushing the entry at the end and keeping the last cap entries
addLogAtEnd(prev, message, level, cap) ==
    SubSeq(prev \o <<LogEntry(message, level)>>,
           Len(prev) + 2 - Min(Len(prev) + 1, cap), Len(prev) + 1)

\* [newLog, ...prev].slice(0, cap)
addLog(prev, message, level, cap) ==
    SubSeq(<<LogEntry(message, level)>> \o prev, 1, Min(Len(prev) + 1, cap))

CAP(v) == IF v = "auto" THEN CapAuto ELSE CapManual

\* ------------------------------------------------- the caption service
Services == {"geminiService", "part_000"}

FALLBACK_COMMANDS(service) ==
    IF service = "geminiService"
    THEN << "IDENTITY LOCK ENGAGED", "SOCIAL ANCHOR ACTIVE",
            "CONTROL ORBIT SECURED", "SOVEREIGN PROTOCOL" >>
    ELSE << "IDENTITY LOCK ENGAGED", "SOCIAL ANCHOR ACTIVE",
            "CONTROL ORBIT SECURED", "SOVEREIGN PROTOCOL", "AYUTTHAYA CORE" >>

FallbackPool(service) ==
    { FALLBACK_COMMANDS(service)[i] : i \in 1 .. Len(FALLBACK_COMMANDS(service)) }

\* Math.floor(Math.random() * FALLBACK_COMMANDS.length), counted from 1
Pick(service, r) == Scaled(r, Len(FALLBACK_COMMANDS(service))) + 1

Settled(msg, path) ==
    [phase |-> "settled", msg |-> msg, path |-> path, parts |-> <<>>]

Requested(parts) ==
    [phase |-> "requested", msg |-> "", path |-> "", parts |-> parts]

\* A field the payload does not carry reads as undefined; undefined.toFixed
\* throws a TypeError inside the try block.
Has(context, field) == field \in DOMAIN context

\* generatePrecisionCaption with a prompt that reads neither
\* coverageIntensity nor lockStrength
generatePrecisionCaptionLenient(service, context, onLine, pick) ==
    IF ~onLine
    THEN Settled(FALLBACK_COMMANDS(service)[pick], "offline")
    ELSE Requested(IF Has(context, "imageData")
                   THEN <<"text", "inlineData">>
                   ELSE <<"text">>)

\* generatePrecisionCaption without the navigator.onLine test
generatePrecisionCaptionUnguarded(service, context, onLine, pick) ==
    IF ~Has(context, "coverageIntensity") \/ ~Has(context, "lockStrength")
    THEN Settled(FALLBACK_COMMANDS(service)[pick], "error")
    ELSE Requested(IF Has(context, "imageData")
                   THEN <<"text", "inlineData">>
                   ELSE <<"text">>)

\* generatePrecisionCaption up to its first await: the promise is either
\* already settled (offline, or an exception while the prompt is built) or
\* waits for generateContent.
generatePrecisionCaption(service, context, onLine, pick) ==
    IF ~onLine
    THEN Settled(FALLBACK_COMMANDS(service)[pick], "offline")
    ELSE IF ~Has(context, "coverageIntensity") \/ ~Has(context, "lockStrength")
         THEN Settled(FALLBACK_COMMANDS(service)[pick], "error")
         ELSE Requested(IF Has(context, "imageData")
                        THEN <<"text", "inlineData">>
                        ELSE <<"text">>)

\* What generateContent can do with a request: reject, or resolve with a
\* response whose text is a string, the empty string, or absent.
Texts == {"ORBIT NOMINAL"}

Replies ==
    { [ok |-> FALSE, text |-> ""] } \cup
    { [ok |-> TRUE, text |-> t] : t \in Texts \cup {""} }

\* generatePrecisionCaption returning response.text as it is
generateContentSettlesRaw(service, reply, pick) ==
    IF ~reply.ok
    THEN Settled(FALLBACK_COMMANDS(service)[pick], "error")
    ELSE Settled(reply.text, IF reply.text = "" THEN "empty" ELSE "text")

\* generatePrecisionCaption after the await:
\* return response.text || FALLBACK_COMMANDS[0], or the catch block
generateContentSettles(service, reply, pick) ==
    IF ~reply.ok
    THEN Settled(FALLBACK_COMMANDS(service)[pick], "error")
    ELSE IF reply.text = ""
         THEN Settled(FALLBACK_COMMANDS(service)[1], "empty")
         ELSE Settled(reply.text, "text")

\* --------------------------------------------------------------- state
VARIABLES
    variant,          \* which App component runs: "auto" or "manual"
    service,          \* which version of the caption service is linked
    sampled,          \* the environment reads whose value this run varies
    now,              \* wall clock, in seconds
    startTimeRef,     \* startTimeRef.current: the clock at construction
    onLine,           \* navigator.onLine
    hasMemory,        \* the browser offers window.performance.memory
    stream,           \* getUserMedia: "pending", "granted" or "denied"
    ticker,           \* the 1-second interval: <<due time>>
    missionInterval,  \* the 15-second interval: <<due time>>, <<>> if none
    closure,          \* <<the render the mission callback closes over>>
    status, logs, isLaunched, coverageIndex, zoneSync, telemetry, metrics,
    aiMessage, lastEvent,   \* the useState values (of metrics only the
                      \* fields a handler assigns: uptime, precisionRate)
    launchCounter,    \* launchCounter.current
    cycles,           \* analysis cycles between their await and its result
    clicks,           \* user clicks so far
    events,           \* network and battery events so far
    ticks,            \* firings of the ticker so far
    fired,            \* firings of the mission interval so far
    lastCycle         \* <<the cycle that completed last>>

vars == << variant, service, sampled, now, startTimeRef, onLine, hasMemory,
           stream, ticker, missionInterval, closure, status, logs, isLaunched,
           coverageIndex, zoneSync, telemetry, metrics, aiMessage, lastEvent,
           launchCounter, cycles, clicks, events, ticks, fired, lastCycle >>

\* what no handler of the component ever assigns (a reload of the page
\* constructs the component again, with a new startTimeRef)
envVars == << variant, service, sampled, startTimeRef, hasMemory >>

MISSION_ZONES ==
    << "Central Orbit (BKK)", "Northern Ascent", "Eastern Link",
       "Southern Sector", "Isan Hub", "Ayutthaya Core", "Korat Node",
       "Phuket Relay", "Chiang Mai Uplink", "Deep South Sync" >>

\* the zones the model tracks: the first MaxZones of MISSION_ZONES
Zones == { MISSION_ZONES[i] : i \in 1 .. Min(MaxZones, Len(MISSION_ZONES)) }

\* n.toFixed(d) of a fixed-point number, as the integer n * 10^d rounded
toFixed(n, d) == (n * (10 ^ d) + (U \div 2)) \div U

\* formatMissionTime / formatUptime: the hh, mm, ss fields
formatMissionTime(seconds) ==
    << seconds \div 3600, (seconds % 3600) \div 60, seconds % 60 >>

formatUptime(seconds) ==
    << seconds \div 3600, (seconds % 3600) \div 60, seconds % 60 >>

\* a number that may be NaN
Num(v) == [nan |-> FALSE, v |-> v]

NaN == [nan |-> TRUE, v |-> 0]

\* obj.field as a number: a field the object lacks reads as undefined,
\* which arithmetic turns into NaN
Field(obj, field) == IF field \in DOMAIN obj THEN Num(obj[field]) ELSE NaN

NDiv(a, b) ==
    IF a.nan \/ b.nan THEN NaN
    ELSE IF b.v = 0 THEN NaN ELSE Num((a.v * U) \div b.v)

NMul(a, b) == IF a.nan \/ b.nan THEN NaN ELSE Num((a.v * b.v) \div U)

NSub(a, b) == IF a.nan \/ b.nan THEN NaN ELSE Num(a.v - b.v)

\* window.performance.memory where the browser has it (MemoryInfo has the
\* fields jsHeapSizeLimit, totalJSHeapSize and usedJSHeapSize), in MB
MemoryInfo ==
    [jsHeapSizeLimit |-> 4096 * U, totalJSHeapSize |-> 64 * U,
     usedJSHeapSize |-> 48 * U]

\* the values of one render that the callbacks created in it read
Render(st, up, thr, cov) ==
    [status |-> st, uptime |-> up, thrust |-> thr, coverageIndex |-> cov]

\* The draws explored at one Math.random() call site, and the values
\* explored for navigator.connection.downlink: all of them at the sites
\* this run samples, the least one elsewhere.
Draw(site) == IF site \in sampled THEN Rand ELSE {0}

Downlinks == {0, 10 * U}

Downlink == IF "downlink" \in sampled THEN Downlinks ELSE {0}

\* how late a timer callback may run: not at all unless the run samples it
Lateness == IF "lateness" \in sampled THEN MaxLate ELSE 0

\* the component is mounted: the ticker of its effect 2 is set from the
\* first render until the cleanup of that effect
Mounted == ticker # <<>>

\* The user and the devices act only in the runs that sample them, and on
\* a mounted component: after teardown the buttons and the window
\* listeners are gone, and the state updates of the callbacks that remain
\* (getUserMedia, the battery listeners) go to a component that is gone.
Acts(source) == source \in sampled /\ Mounted

\* no continuation of a settled await is queued: the next task may run
Idle == \A i \in 1 .. Len(cycles) : cycles[i].phase # "settled"

\* a timer is due
Due(timer) == IF timer = <<>> THEN FALSE ELSE timer[1] <= now

\* a timer callback runs at its due time or up to Lateness seconds after it
Punctual(timer) == IF timer = <<>> THEN TRUE ELSE now - timer[1] < Lateness

\* the cycle a call of generatePrecisionCaption leaves behind at the await
Cycle(call, context, net) ==
    [phase |-> call.phase, msg |-> call.msg, path |-> call.path,
     parts |-> call.parts, context |-> context, onLine |-> net,
     reply |-> <<>>]

\* canvas.toDataURL(...).split(',')[1] || undefined: the payload carries
\* imageData only when the capture is not empty
WithImage(context, captured) ==
    IF captured THEN ("imageData" :> "jpeg") @@ context ELSE context

\* ------------------------------------------- the autonomous component
\* effect 3: re-run when isLaunched or coverageIndex differ from the render
\* before; the cleanup clears the old interval, and a new one is set up
\* (closing over the new render) only while isLaunched.
MissionEffect(isL, cov, st, up, thr) ==
    IF isL = isLaunched /\ cov = coverageIndex
    THEN UNCHANGED << missionInterval, closure >>
    ELSE IF isL
         THEN /\ missionInterval' = << now + MissionPeriod >>
              /\ closure' = << Render(st, up, thr, cov) >>
         ELSE /\ missionInterval' = <<>>
              /\ closure' = <<>>

\* the ContextPayload handleMissionAnalysis builds from its render
MissionContext(render) ==
    [targetName |-> "target",
     currentTime |-> now,
     uptime |-> formatMissionTime(render.uptime),
     systemPhase |-> "Launch / Active Orbit",
     recentEvent |-> toFixed(render.thrust, 1),
     coverageIntensity |-> render.coverageIndex,
     propulsionStatus |-> toFixed(render.thrust, 2)]

\* handleMissionAnalysis without the entry it logs when it starts
handleMissionAnalysisSilent(render, prevLogs) ==
    IF render.status = "ANALYZING"
    THEN /\ logs' = prevLogs
         /\ UNCHANGED << status, cycles >>
    ELSE \E has2d \in BOOLEAN, r \in Draw("fallback") :
           LET context == WithImage(MissionContext(render), has2d)
               pick == Pick(service, r)
               call == generatePrecisionCaption(service, context, onLine, pick)
           IN /\ status' = "ANALYZING"
              /\ logs' = prevLogs
              /\ cycles' = Append(cycles, Cycle(call, context, onLine))

\* handleMissionAnalysis, called in the render `render`, up to its await.
\* The canvas is given a width and height of at least 640 x 480, so the
\* capture is empty only when there is no 2D context.
handleMissionAnalysis(render, prevLogs) ==
    IF render.status = "ANALYZING"
    THEN /\ logs' = prevLogs
         /\ UNCHANGED << status, cycles >>
    ELSE \E has2d \in BOOLEAN, r \in Draw("fallback") :
           LET context == WithImage(MissionContext(render), has2d)
               pick == Pick(service, r)
               call == generatePrecisionCaption(service, context, onLine, pick)
           IN /\ status' = "ANALYZING"
              /\ logs' = addLog(prevLogs, "Multimodal Scan", "INFO", CapAuto)
              /\ cycles' = Append(cycles, Cycle(call, context, onLine))

\* the uptime counted up by one per tick
UptimeCounted(prev, clock) == prev + 1

\* the coverage gain added without the limit
NextCoverageUnclamped(prev, r) == prev + Scaled(r, U \div 100)

\* Math.floor((Date.now() - startTimeRef.current) / 1000), the clock
\* being read in seconds
Uptime(prev, clock) == clock - startTimeRef

\* prev => Math.min(100, prev + (Math.random() * 0.01))
NextCoverage(prev, r) == Min(Hundred * U, prev + Scaled(r, U \div 100))

\* effect 2: the telemetry ticker.  Its state updates are rendered, and
\* the effects of that render run, in a later task than the timer callbacks
\* already due: a mission callback due at the same time comes first.
TickAuto ==
    /\ variant = "auto"
    /\ Idle
    /\ Due(ticker)
    /\ ~Due(missionInterval)
    /\ \E r1 \in Draw("thrust"), r2 \in Draw("stability"),
          r3 \in Draw("thermal"), r4 \in Draw("precisionRate"),
          r5 \in Draw("coverageIndex"), rz \in [Zones -> Draw("zoneSync")],
          downlink \in Downlink :
         LET up == Uptime(metrics.uptime, now)
             thr == 98 * U + Scaled(r1, 2 * U)
             cov == NextCoverage(coverageIndex, r5)
         IN /\ telemetry' =
                 [telemetry EXCEPT
                    !.thrust = thr,
                    !.stability = 9999000 + Scaled(r2, U \div 100),
                    !.thermal = 32 * U + Scaled(r3, (3 * U) \div 2),
                    !.linkRate = toFixed(IF downlink = 0 THEN 25 * U
                                         ELSE downlink, 2)]
            /\ metrics' =
                 [metrics EXCEPT
                    !.uptime = up,
                    !.precisionRate = Num(9999990 + Scaled(r4, 10))]
            /\ coverageIndex' = cov
            /\ zoneSync' = [z \in Zones |-> 9910000 + Scaled(rz[z], 90000)]
            /\ MissionEffect(isLaunched, cov, status, up, thr)
    /\ ticker' = << now + TickPeriod >>
    /\ ticks' = ticks + 1
    /\ UNCHANGED << envVars, now, onLine, stream, status, logs, isLaunched,
                    aiMessage, lastEvent, launchCounter, cycles, clicks,
                    events, fired, lastCycle >>

\* effect 3: the callback of the mission interval
MissionFire ==
    /\ variant = "auto"
    /\ Idle
    /\ Due(missionInterval)
    /\ launchCounter' = launchCounter + 1
    /\ IF (launchCounter + 1) % 1 = 0
       THEN handleMissionAnalysis(
                closure[1],
                addLog(logs, "Flight Director", "SUCCESS", CapAuto))
       ELSE /\ logs' = addLog(logs, "Flight Director", "SUCCESS", CapAuto)
            /\ UNCHANGED << status, cycles >>
    /\ missionInterval' = << now + MissionPeriod >>
    /\ fired' = fired + 1
    /\ UNCHANGED << envVars, now, onLine, stream, ticker, closure, isLaunched,
                    coverageIndex, zoneSync, telemetry, metrics, aiMessage,
                    lastEvent, clicks, events, ticks, lastCycle >>

\* the MISSION ACTIVE / MISSION ABORTED button
ToggleLaunch ==
    /\ variant = "auto"
    /\ Acts("clicks")
    /\ Idle
    /\ clicks < MaxClicks
    /\ isLaunched' = ~isLaunched
    /\ MissionEffect(~isLaunched, coverageIndex, status, metrics.uptime,
                     telemetry.thrust)
    /\ clicks' = clicks + 1
    /\ UNCHANGED << envVars, now, onLine, stream, ticker, status, logs,
                    coverageIndex, zoneSync, telemetry, metrics, aiMessage,
                    lastEvent, launchCounter, cycles, events, ticks, fired,
                    lastCycle >>

\* the network comes or goes; the autonomous component has no listener
NetworkChangeAuto ==
    /\ variant = "auto"
    /\ Acts("network")
    /\ Idle
    /\ onLine' = ~onLine
    /\ UNCHANGED << envVars, now, stream, ticker, missionInterval, closure,
                    status, logs, isLaunched, coverageIndex, zoneSync,
                    telemetry, metrics, aiMessage, lastEvent, launchCounter,
                    cycles, clicks, events, ticks, fired, lastCycle >>

\* ------------------------------------------------ the manual component
\* the downtime above which the specification asks for a reconciliation
\* ("e.g. 5 seconds"); no code of the components refers to it
Threshold == 5

\* the SystemEvent updateNetworkInfo builds
NetworkEvent(net) ==
    [eventType |-> IF net THEN "SYNC_COMPLETE" ELSE "ANOMALY_DETECTED",
     details |-> IF net THEN "Network stable" ELSE "Signal lost. Offline."]

\* SystemStatus has no member OFFLINE: setStatus(SystemStatus.OFFLINE)
\* sets the status to undefined
StatusFor(net) == IF net THEN "ONLINE" ELSE "undefined"

\* updateNetworkInfo, reading navigator.onLine = net
updateNetworkInfo(net) ==
    /\ lastEvent' = << NetworkEvent(net) >>
    /\ logs' = addLog(logs, NetworkEvent(net).eventType,
                      IF net THEN "SUCCESS" ELSE "ERROR", CapManual)
    /\ status' = StatusFor(net)

\* the 'online' and 'offline' events of the window
NetworkChangeManual ==
    /\ variant = "manual"
    /\ Acts("network")
    /\ Idle
    /\ events < MaxEvents
    /\ onLine' = ~onLine
    /\ updateNetworkInfo(~onLine)
    /\ events' = events + 1
    /\ UNCHANGED << envVars, now, stream, ticker, missionInterval, closure,
                    isLaunched, coverageIndex, zoneSync, telemetry, metrics,
                    aiMessage, launchCounter, cycles, clicks, ticks, fired,
                    lastCycle >>

\* updateBattery: 'levelchange' and 'chargingchange' of the battery
BatteryEvent ==
    /\ variant = "manual"
    /\ Acts("battery")
    /\ Idle
    /\ events < MaxEvents
    /\ logs' = addLog(logs, "Power Update", "INFO", CapManual)
    /\ events' = events + 1
    /\ UNCHANGED << envVars, now, onLine, stream, ticker, missionInterval,
                    closure, status, isLaunched, coverageIndex, zoneSync,
                    telemetry, metrics, aiMessage, lastEvent, launchCounter,
                    cycles, clicks, ticks, fired, lastCycle >>

\* 100 - (memory.usedJSHeapSize / memory.jsHeapSize) * 0.01, or 99.99
\* where the browser has no performance.memory
ManualPrecision(withMemory) ==
    IF withMemory
    THEN NSub(Num(100 * U),
              NMul(NDiv(Field(MemoryInfo, "usedJSHeapSize"),
                        Field(MemoryInfo, "jsHeapSize")),
                   Num(U \div 100)))
    ELSE Num(9999000)

\* the uptime ticker of effect 2
TickManual ==
    /\ variant = "manual"
    /\ Idle
    /\ Due(ticker)
    /\ metrics' = [metrics EXCEPT
                     !.uptime = Uptime(metrics.uptime, now),
                     !.precisionRate = ManualPrecision(hasMemory)]
    /\ ticker' = << now + TickPeriod >>
    /\ ticks' = ticks + 1
    /\ UNCHANGED << envVars, now, onLine, stream, missionInterval, closure,
                    status, logs, isLaunched, coverageIndex, zoneSync,
                    telemetry, aiMessage, lastEvent, launchCounter, cycles,
                    clicks, events, fired, lastCycle >>

\* the ContextPayload handleManualAnalysis builds
ManualContext ==
    [targetName |-> "target",
     currentTime |-> now,
     uptime |-> formatUptime(metrics.uptime),
     systemPhase |-> IF metrics.uptime > 600 THEN "peak-performance"
                     ELSE "startup",
     recentEvent |-> IF lastEvent # <<>> THEN lastEvent[1].eventType
                     ELSE "Monitoring stable stream."]

\* handleManualAnalysis up to its await: the click on GENERATE MULTIMODAL
\* LOGIC, a button that is disabled while the rendered status is ANALYZING.
\* The canvas takes the video's size, so the capture is empty unless the
\* stream delivers frames.
handleManualAnalysis ==
    /\ variant = "manual"
    /\ Acts("clicks")
    /\ Idle
    /\ clicks < MaxClicks
    /\ status # "ANALYZING"
    /\ \E frame \in (IF stream = "granted" THEN BOOLEAN ELSE {FALSE}),
          r \in Draw("fallback") :
         LET context == WithImage(ManualContext, frame)
             pick == Pick(service, r)
             call == generatePrecisionCaption(service, context, onLine, pick)
         IN cycles' = Append(cycles, Cycle(call, context, onLine))
    /\ status' = "ANALYZING"
    /\ logs' = addLog(logs, "Gemini Engine", "INFO", CapManual)
    /\ clicks' = clicks + 1
    /\ UNCHANGED << envVars, now, onLine, stream, ticker, missionInterval,
                    closure, isLaunched, coverageIndex, zoneSync, telemetry,
                    metrics, aiMessage, lastEvent, launchCounter, events,
                    ticks, fired, lastCycle >>

\* how long the page takes to come back after window.location.reload():
\* no time, or MaxDowntime seconds in the runs that sample it
Downtimes == IF "downtime" \in sampled THEN {0, MaxDowntime} ELSE {0}

\* The Full Kernel Reload button: window.location.reload().  The page is
\* loaded again and the component is constructed anew: every useState and
\* useRef takes its initial value, startTimeRef the clock of that moment,
\* and the effects of the first render run (see InitManual).  Nothing of
\* the state before is written anywhere or read back.
Reload ==
    /\ variant = "manual"
    /\ Acts("reload")
    /\ Idle
    /\ clicks < MaxClicks
    /\ \E d \in Downtimes :
         /\ now' = now + d
         /\ startTimeRef' = now + d
         /\ ticker' = << now + d + TickPeriod >>
    /\ status' = StatusFor(onLine)
    /\ logs' = addLog(addLog(<<>>, "Requesting hardware access", "INFO",
                             CapManual),
                      NetworkEvent(onLine).eventType,
                      IF onLine THEN "SUCCESS" ELSE "ERROR", CapManual)
    /\ metrics' = [uptime |-> 0, precisionRate |-> Num(100 * U)]
    /\ aiMessage' = "SYSTEM KERNEL LOADED"
    /\ lastEvent' = << NetworkEvent(onLine) >>
    /\ stream' = "pending"
    /\ ticks' = 0
    /\ lastCycle' = <<>>
    /\ clicks' = clicks + 1
    /\ UNCHANGED << variant, service, sampled, hasMemory, onLine,
                    missionInterval, closure, isLaunched, coverageIndex,
                    zoneSync, telemetry, launchCounter, cycles, events,
                    fired >>

\* ------------------------------------------------------ both components
FirstSettled ==
    CHOOSE i \in 1 .. Len(cycles) :
        /\ cycles[i].phase = "settled"
        /\ \A j \in 1 .. (i - 1) : cycles[j].phase # "settled"

Without(seq, i) == SubSeq(seq, 1, i - 1) \o SubSeq(seq, i + 1, Len(seq))

\* the level of the entry a cycle logs when it ends
OutcomeLevel(cycle) == "SUCCESS"

\* handleMissionAnalysis / handleManualAnalysis after the await
Resume ==
    /\ ~Idle
    /\ LET i == FirstSettled
           level == OutcomeLevel(cycles[i])
       IN /\ aiMessage' = cycles[i].msg
          /\ logs' = addLog(logs,
                            IF variant = "auto" THEN "Orbit Report"
                            ELSE "Logic Synced",
                            level, CAP(variant))
          /\ status' = "ONLINE"
          /\ cycles' = Without(cycles, i)
          /\ lastCycle' = << [outcomeLevel |-> level] @@ cycles[i] >>
    /\ UNCHANGED << envVars, now, onLine, stream, ticker, missionInterval,
                    closure, isLaunched, coverageIndex, zoneSync, telemetry,
                    metrics, lastEvent, launchCounter, clicks, events, ticks,
                    fired >>

\* effect 1: getUserMedia resolves (videoRef.current is set: the video
\* element is always rendered) or rejects; SystemStatus has no member
\* RECOVERING, so the catch block sets the status to undefined
StreamSettles ==
    /\ Acts("media")
    /\ Idle
    /\ stream = "pending"
    /\ \/ /\ stream' = "granted"
          /\ logs' = addLog(logs, "Uplink Established", "SUCCESS", CAP(variant))
          /\ UNCHANGED status
       \/ /\ stream' = "denied"
          /\ logs' = addLog(logs, "Hardware Alert", "ERROR", CAP(variant))
          /\ status' = "undefined"
    /\ UNCHANGED << envVars, now, onLine, ticker, missionInterval, closure,
                    isLaunched, coverageIndex, zoneSync, telemetry, metrics,
                    aiMessage, lastEvent, launchCounter, cycles, clicks,
                    events, ticks, fired, lastCycle >>

\* a teardown in which effect 3 has no cleanup
TeardownKeepsMission ==
    /\ Acts("teardown")
    /\ Idle
    /\ ticker' = <<>>
    /\ UNCHANGED << envVars, now, onLine, stream, missionInterval, closure,
                    status, logs, isLaunched, coverageIndex, zoneSync,
                    telemetry, metrics, aiMessage, lastEvent, launchCounter,
                    cycles, clicks, events, ticks, fired, lastCycle >>

\* React unmounts the component and runs the cleanup of every effect:
\* clearInterval(ticker), clearInterval(missionInterval), and in the manual
\* component removeEventListener for 'online' and 'offline'
Teardown ==
    /\ Acts("teardown")
    /\ Idle
    /\ ticker' = <<>>
    /\ missionInterval' = <<>>
    /\ closure' = <<>>
    /\ UNCHANGED << envVars, now, onLine, stream, status, logs, isLaunched,
                    coverageIndex, zoneSync, telemetry, metrics, aiMessage,
                    lastEvent, launchCounter, cycles, clicks, events, ticks,
                    fired, lastCycle >>

\* how long a run is followed: the autonomous component past its first
\* mission period (past its second one where coverageIndex is close to
\* its limit), the manual one, which has no such period, for less
Horizon ==
    IF variant = "manual" THEN MaxTimeManual
    ELSE IF startTimeRef = 0 THEN MaxTime ELSE MaxTimeSaturated

\* one second passes
Advance ==
    /\ Idle
    /\ now < Horizon
    /\ Punctual(ticker)
    /\ Punctual(missionInterval)
    /\ now' = now + 1
    /\ UNCHANGED << envVars, onLine, stream, ticker, missionInterval, closure,
                    status, logs, isLaunched, coverageIndex, zoneSync,
                    telemetry, metrics, aiMessage, lastEvent, launchCounter,
                    cycles, clicks, events, ticks, fired, lastCycle >>

\* ------------------------------------------------------------ start
\* the log after the effects of the first render: setupStream has logged,
\* and in the manual component updateNetworkInfo has
BootLogs(v, net) ==
    IF v = "auto"
    THEN addLog(<<>>, "Mission Control: Initializing", "INFO", CapAuto)
    ELSE addLog(addLog(<<>>, "Requesting hardware access", "INFO", CapManual),
                NetworkEvent(net).eventType,
                IF net THEN "SUCCESS" ELSE "ERROR", CapManual)

\* the autonomous component after its first render and its effects:
\* setupStream waits for getUserMedia, both intervals are set
InitAuto ==
    /\ variant = "auto"
    /\ hasMemory = FALSE
    /\ onLine \in BOOLEAN
    /\ startTimeRef = now
    /\ status = "ONLINE"
    /\ isLaunched = TRUE
    /\ coverageIndex = 95 * U
    /\ zoneSync = [z \in {} |-> 0]
    /\ telemetry = [thrust |-> 9840000, stability |-> 9990000,
                    thermal |-> 32 * U, linkRate |-> 0]
    /\ metrics = [uptime |-> 0, precisionRate |-> Num(100 * U)]
    /\ aiMessage = "T-MINUS ZERO"
    /\ lastEvent = <<>>
    /\ ticker = << now + TickPeriod >>
    /\ missionInterval = << now + MissionPeriod >>
    /\ closure = << Render("ONLINE", 0, 9840000, 95 * U) >>
    /\ ticks = 0

\* the manual component after its first render and its effects: setupStream
\* waits for getUserMedia, the ticker is set, updateNetworkInfo has run once
InitManual ==
    /\ variant = "manual"
    /\ hasMemory \in BOOLEAN
    /\ onLine \in BOOLEAN
    /\ startTimeRef = now
    /\ status = StatusFor(onLine)
    /\ isLaunched = FALSE
    /\ coverageIndex = 0
    /\ zoneSync = [z \in {} |-> 0]
    /\ telemetry = [thrust |-> 0, stability |-> 0, thermal |-> 0, linkRate |-> 0]
    /\ metrics = [uptime |-> 0, precisionRate |-> Num(100 * U)]
    /\ aiMessage = "SYSTEM KERNEL LOADED"
    /\ lastEvent = << NetworkEvent(onLine) >>
    /\ ticker = << now + TickPeriod >>
    /\ missionInterval = <<>>
    /\ closure = <<>>
    /\ ticks = 0

\* The autonomous component LongRun seconds after its construction, right
\* after a tick: every tick so far was on time and raised coverageIndex
\* (so the mission interval was set up again each time and has not fired),
\* every other draw was 0, and getUserMedia has not answered yet.
InitAutoLongRun ==
    /\ variant = "auto"
    /\ hasMemory = FALSE
    /\ onLine \in BOOLEAN
    /\ startTimeRef = now - LongRun
    /\ status = "ONLINE"
    /\ isLaunched = TRUE
    /\ coverageIndex \in {Hundred * U - U \div 400, Hundred * U}
    /\ zoneSync = [z \in Zones |-> 9910000]
    /\ telemetry = [thrust |-> 98 * U, stability |-> 9999000,
                    thermal |-> 32 * U, linkRate |-> toFixed(25 * U, 2)]
    /\ metrics = [uptime |-> LongRun, precisionRate |-> Num(9999990)]
    /\ aiMessage = "T-MINUS ZERO"
    /\ lastEvent = <<>>
    /\ ticker = << now + TickPeriod >>
    /\ missionInterval = << now + MissionPeriod >>
    /\ closure = << Render("ONLINE", LongRun, 98 * U, coverageIndex) >>
    /\ ticks = LongRun

InitCommon ==
    /\ now = 0
    /\ stream = "pending"
    /\ launchCounter = 0
    /\ cycles = <<>>
    /\ clicks = 0
    /\ events = 0
    /\ fired = 0
    /\ lastCycle = <<>>

\* the runs explored: what the environment varies in each
AutoRuns ==
    { {"coverageIndex", "clicks", "network", "fallback"},
      {"coverageIndex", "thrust", "media"},
      {"lateness"},
      {"thrust", "stability", "downlink"},
      {"thermal", "precisionRate"},
      {"zoneSync"},
      {"coverageIndex", "teardown"} }

ManualRuns ==
    { {"clicks", "network", "fallback"},
      {"clicks", "media", "battery"},
      {"lateness"},
      {"clicks", "teardown"},
      {"reload", "battery"},
      {"reload", "downtime"} }

SaturationRuns ==
    { {"coverageIndex", "thrust", "network"},
      {"coverageIndex", "clicks", "fallback"},
      {"teardown"} }

\* The App components import ./services/geminiService.
Init ==
    /\ InitCommon
    /\ service = "geminiService"
    /\ \/ /\ sampled \in AutoRuns
          /\ InitAuto
       \/ /\ sampled \in ManualRuns
          /\ InitManual
       \/ /\ sampled \in SaturationRuns
          /\ InitAutoLongRun
    /\ logs = BootLogs(variant, onLine)

Next ==
    \/ Advance
    \/ TickAuto
    \/ MissionFire
    \/ ToggleLaunch
    \/ NetworkChangeAuto
    \/ TickManual
    \/ handleManualAnalysis
    \/ NetworkChangeManual
    \/ BatteryEvent
    \/ Resume
    \/ StreamSettles
    \/ Teardown
    \/ Reload

Spec == Init /\ [][Next]_vars

\* The continuation of an await on a settled promise is a microtask: the
\* event loop runs it before anything else.  Timers, the user, the network
\* and the devices owe the component nothing.
Fairness == WF_vars(Resume)

SpecLive == Spec /\ Fairness

\* ------------------------------------- generatePrecisionCaption by itself
\* A ContextPayload as the interface of the service declares it, and the
\* payloads the two components build.
TypedPayload ==
    [targetName |-> "target", currentTime |-> 0, uptime |-> <<0, 0, 0>>,
     systemPhase |-> "startup", coverageIntensity |-> 95 * U,
     lockStrength |-> 80 * U]

Payloads ==
    { WithImage(c, img) :
        c \in { TypedPayload, ManualContext,
                MissionContext(Render("ONLINE", 0, 9840000, 95 * U)) },
        img \in BOOLEAN }

\* a caller awaits generatePrecisionCaption(context)
CallCaption ==
    /\ Idle
    /\ clicks < MaxCalls
    /\ \E context \in Payloads, r \in Draw("fallback") :
         cycles' = Append(cycles,
                     Cycle(generatePrecisionCaption(service, context, onLine,
                                                    Pick(service, r)),
                           context, onLine))
    /\ clicks' = clicks + 1
    /\ UNCHANGED << envVars, now, onLine, stream, ticker, missionInterval,
                    closure, status, logs, isLaunched, coverageIndex,
                    zoneSync, telemetry, metrics, aiMessage, lastEvent,
                    launchCounter, events, ticks, fired, lastCycle >>

\* generateContent answers a request, and generatePrecisionCaption settles
Respond ==
    /\ Idle
    /\ \E i \in 1 .. Len(cycles), reply \in Replies, r \in Draw("fallback") :
         /\ cycles[i].phase = "requested"
         /\ LET done == generateContentSettles(service, reply,
                                               Pick(service, r))
            IN cycles' = [cycles EXCEPT
                            ![i].phase = done.phase,
                            ![i].msg = done.msg,
                            ![i].path = done.path,
                            ![i].reply = << reply >>]
    /\ UNCHANGED << envVars, now, onLine, stream, ticker, missionInterval,
                    closure, status, logs, isLaunched, coverageIndex,
                    zoneSync, telemetry, metrics, aiMessage, lastEvent,
                    launchCounter, clicks, events, ticks, fired, lastCycle >>

InitCaption ==
    /\ InitCommon
    /\ service \in Services
    /\ sampled = {"fallback", "network"}
    /\ (InitAuto \/ InitManual)
    /\ logs = BootLogs(variant, onLine)

NextCaption ==
    \/ CallCaption
    \/ Respond
    \/ Resume
    \/ NetworkChangeAuto
    \/ NetworkChangeManual

SpecCaption == InitCaption /\ [][NextCaption]_vars

\* ----------------------------------------------------- addLog by itself
\* What the components have logged after n entries, newest first: the
\* entries of the first render, then in the autonomous component one
\* mission period after the other, in the manual one battery events.
Written(v, net, j) ==
    IF j <= Len(BootLogs(v, net))
    THEN BootLogs(v, net)[Len(BootLogs(v, net)) + 1 - j]
    ELSE IF v = "manual" THEN LogEntry("Power Update", "INFO")
    ELSE IF j % 3 = 2 THEN LogEntry("Flight Director", "SUCCESS")
    ELSE IF j % 3 = 0 THEN LogEntry("Multimodal Scan", "INFO")
    ELSE LogEntry("Orbit Report", "SUCCESS")

LogOf(v, net, n) == [i \in 1 .. n |-> Written(v, net, n + 1 - i)]

Messages == {"Power Update", "Orbit Report"}

\* a caller appends an entry
AppendLog ==
    /\ events < MaxEvents
    /\ \E message \in Messages, level \in Levels :
         logs' = addLog(logs, message, level, CAP(variant))
    /\ events' = events + 1
    /\ UNCHANGED << envVars, now, onLine, stream, ticker, missionInterval,
                    closure, status, isLaunched, coverageIndex, zoneSync,
                    telemetry, metrics, aiMessage, lastEvent, launchCounter,
                    cycles, clicks, ticks, fired, lastCycle >>

InitLog ==
    /\ InitCommon
    /\ service = "geminiService"
    /\ sampled = {"media"}
    /\ (InitAuto \/ InitManual)
    /\ \E n \in {Len(BootLogs(variant, onLine)), CAP(variant) - 1,
                 CAP(variant)} :
         logs = LogOf(variant, onLine, n)

NextLog ==
    \/ AppendLog
    \/ StreamSettles

SpecLog == InitLog /\ [][NextLog]_vars

\* ================================================================ claims
\* a cycle of this component has completed
Completed == lastCycle # <<>>

\* the call of a cycle took one of the failure branches: the network was
\* off when it was made, the prompt could not be built from the payload,
\* generateContent rejected, or the response had no text
Failed(cycle) ==
    \/ ~cycle.onLine
    \/ ~Has(cycle.context, "coverageIntensity")
    \/ ~Has(cycle.context, "lockStrength")
    \/ IF cycle.reply = <<>> THEN FALSE
       ELSE ~cycle.reply[1].ok \/ cycle.reply[1].text = ""

C2_FallbackOnFailure ==
    /\ \A n \in Services : FALLBACK_COMMANDS(n) # <<>>
    /\ \A i \in 1 .. Len(cycles) :
         (cycles[i].phase = "settled" /\ Failed(cycles[i]))
            => cycles[i].msg \in FallbackPool(service)
    /\ (Completed /\ Failed(lastCycle[1]))
          => /\ lastCycle[1].msg \in FallbackPool(service)
             /\ aiMessage = lastCycle[1].msg
             /\ aiMessage # ""

\* a cycle has ended on a response without text, and the first fallback
\* string is displayed
C2_Witness ==
    /\ Completed
    /\ lastCycle[1].reply # <<>>
    /\ lastCycle[1].reply[1].ok
    /\ lastCycle[1].reply[1].text = ""
    /\ aiMessage = FALLBACK_COMMANDS(service)[1]

\* C3: in the autonomous component, launched from startup and with its
\* timers on time, once 15 * k ticks have fired the mission interval has
\* fired exactly k times.  (Looked at once every callback due in that
\* second has run.)
C3_EveryFifteenthTick ==
    ( /\ variant = "auto"
      /\ startTimeRef = 0
      /\ clicks = 0
      /\ "lateness" \notin sampled
      /\ ticks >= MissionPeriod
      /\ ticks % MissionPeriod = 0
      /\ ~Due(ticker)
      /\ ~Due(missionInterval) )
    => fired = ticks \div MissionPeriod

\* C4: a cycle whose message came from the fallback pool logs its outcome
\* at level ERROR or WARNING.
C4_FallbackLoggedAsFailure ==
    (Completed /\ lastCycle[1].msg \in FallbackPool(service))
       => lastCycle[1].outcomeLevel \in {"ERROR", "WARNING"}

\* C5: the collaborator answering every request with a text of Texts, a
\* cycle that a component starts while the network is on ends with that
\* text displayed and a SUCCESS entry logged.
C5_TextDisplayed ==
    (Completed /\ lastCycle[1].onLine)
       => /\ aiMessage \in Texts
          /\ lastCycle[1].outcomeLevel = "SUCCESS"

\* C6: the log never holds more than CAP entries (100 in the autonomous
\* component, 50 in the manual one), and every append puts the new entry
\* at index 1, keeps the entries that stay in their order, and drops only
\* the oldest one when the log was full.
C6_BoundedNewestFirst ==
    /\ [](Len(logs) <= CAP(variant))
    /\ [][ logs' # logs =>
             /\ Len(logs') = Min(Len(logs) + 1, CAP(variant))
             /\ \A i \in 2 .. Len(logs') : logs'[i] = logs[i - 1] ]_vars

\* a full log has taken one more entry: the oldest entry, the one written
\* first, is gone
C6_Witness ==
    /\ Len(logs) = CAP(variant)
    /\ events > 0
    /\ logs[Len(logs)] # Written(variant, onLine, 1)

InRange(x) == 0 <= x /\ x <= Hundred * U

\* C8: every percentage (precisionRate, coverageIndex, thrust, stability and
\* each zoneSync value) is a number from 0 to 100.
C8_PercentagesInRange ==
    /\ ~metrics.precisionRate.nan
    /\ InRange(metrics.precisionRate.v)
    /\ InRange(coverageIndex)
    /\ InRange(telemetry.thrust)
    /\ InRange(telemetry.stability)
    /\ \A z \in DOMAIN zoneSync : InRange(zoneSync[z])

\* C9: no step lowers coverageIndex or takes it past 100, and once it is
\* 100 it stays 100.
C9_CoverageSaturates ==
    [][ /\ coverageIndex' >= coverageIndex
        /\ coverageIndex' <= Hundred * U
        /\ (coverageIndex = Hundred * U => coverageIndex' = Hundred * U) ]_vars

\* coverageIndex has been brought to 100 by a tick and has stayed there
\* over later ticks
C9_Witness ==
    /\ variant = "auto"
    /\ coverageIndex = Hundred * U
    /\ closure # <<>>
    /\ closure[1].coverageIndex = Hundred * U
    /\ closure[1].uptime > LongRun
    /\ metrics.uptime > closure[1].uptime + 1

C12_MessageNeverBlank ==
    /\ aiMessage # ""
    /\ \A n \in Services : "" \notin FallbackPool(n)

\* a cycle has ended on a text of the collaborator, which is displayed
C12_Witness ==
    /\ Completed
    /\ lastCycle[1].path = "text"
    /\ aiMessage = lastCycle[1].msg
    /\ aiMessage \in Texts

\* C13: once the component is torn down no tick is applied, the mission
\* interval does not fire, no cycle starts and no timer is set again; and
\* at any time there is at most one ticker and one mission interval, the
\* ticker of a mounted component, the mission interval of one that is
\* mounted and launched.
C13_TimersCleared ==
    /\ [](/\ Len(ticker) <= 1
          /\ Len(missionInterval) <= 1
          /\ (missionInterval # <<>> => (Mounted /\ isLaunched)))
    /\ [][ ~Mounted =>
             /\ ticks' = ticks
             /\ fired' = fired
             /\ cycles' = cycles
             /\ << metrics, coverageIndex, status, logs >>'
                  = << metrics, coverageIndex, status, logs >>
             /\ ticker' = <<>>
             /\ missionInterval' = <<>> ]_vars

\* an autonomous component that had ticked was torn down while launched,
\* and two seconds or more have passed since its last tick
C13_Witness ==
    /\ variant = "auto"
    /\ ~Mounted
    /\ isLaunched
    /\ ticks > 0
    /\ now - startTimeRef >= metrics.uptime + 2

\* C14: a cycle that a component starts with the network on and without a
\* frame (no 2D context, or an empty capture) ends having sent a request
\* that carries the text part alone, its payload having no imageData.
C14_ProceedsWithoutFrame ==
    ( /\ Completed
      /\ lastCycle[1].onLine
      /\ ~Has(lastCycle[1].context, "imageData") )
    => lastCycle[1].parts = <<"text">>

\* C15: the state survives a reload.  The component constructed by a
\* reload that follows a tick starts from what the one before had last: the same uptime and
\* precisionRate, the same coverageIndex, and a log that still holds the
\* entries of before, in their order, beneath those of the new start.
C15_StateSurvivesReload ==
    [][ (startTimeRef' # startTimeRef /\ ticks > 0) =>
          LET boot == Len(BootLogs(variant, onLine))
          IN /\ metrics'.uptime = metrics.uptime
             /\ metrics'.precisionRate = metrics.precisionRate
             /\ coverageIndex' = coverageIndex
             /\ Len(logs') = Min(Len(logs) + boot, CAP(variant))
             /\ \A i \in 1 .. (Len(logs') - boot) :
                  logs'[i + boot] = logs[i] ]_vars

\* C16: a component constructed by a reload that follows a tick, the page
\* having been away for more than Threshold seconds, starts with the uptime
\* of before advanced by that downtime (what as many ticks would have
\* added) and with one log entry more, the one that reports the
\* reconciliation.
C16_DowntimeReconciled ==
    [][ (startTimeRef' # startTimeRef /\ ticks > 0 /\ now' - now > Threshold)
          => LET boot == Len(BootLogs(variant, onLine))
                 downtime == now' - now
             IN /\ metrics'.uptime >= metrics.uptime + downtime
                /\ Len(logs') = Min(Len(logs) + boot + 1, CAP(variant)) ]_vars

\* the entries of `before` are those of `after` beneath its first n, as far
\* as the cap lets them stay
GrownBy(before, after, n) ==
    /\ Len(after) = Min(Len(before) + n, CAP(variant))
    /\ \A i \in 1 .. (Len(after) - n) : after[i + n] = before[i]

\* C17: a cycle appends exactly one entry, the one that reports its
\* outcome: the step that starts it leaves the log as it was, and the step
\* that ends it adds one entry.
C17_OneEntryPerCycle ==
    /\ [][ (cycles = <<>> /\ cycles' # <<>>) => logs' = logs ]_vars
    /\ [][ (cycles # <<>> /\ cycles' = <<>>) => GrownBy(logs, logs', 1) ]_vars

\* C17 as amended: a cycle appends two entries, an INFO entry when it
\* starts and a SUCCESS entry when it ends, and in the autonomous component
\* the callback of the mission interval appends one more, at SUCCESS, before
\* it starts the cycle.
C17_EntriesPerCycle ==
    /\ [][ (cycles = <<>> /\ cycles' # <<>>) =>
             /\ logs'[1].level = "INFO"
             /\ logs'[1].message = (IF variant = "auto" THEN "Multimodal Scan"
                                    ELSE "Gemini Engine")
             /\ IF variant = "auto"
                THEN /\ Len(logs') >= 2
                     /\ logs'[2] = LogEntry("Flight Director", "SUCCESS")
                     /\ GrownBy(logs, logs', 2)
                ELSE GrownBy(logs, logs', 1) ]_vars
    /\ [][ (cycles # <<>> /\ cycles' = <<>>) =>
             /\ logs'[1].level = "SUCCESS"
             /\ logs'[1].message = (IF variant = "auto" THEN "Orbit Report"
                                    ELSE "Logic Synced")
             /\ GrownBy(logs, logs', 1) ]_vars

\* a cycle of the autonomous component has ended: its three entries lie on
\* top of the log
C17_Witness ==
    /\ variant = "auto"
    /\ Completed
    /\ cycles = <<>>
    /\ Len(logs) >= 4
    /\ logs[1] = LogEntry("Orbit Report", "SUCCESS")
    /\ logs[2] = LogEntry("Multimodal Scan", "INFO")
    /\ logs[3] = LogEntry("Flight Director", "SUCCESS")

C19_PayloadIsCurrent ==
    (variant = "auto" /\ cycles # <<>> /\ "lateness" \notin sampled) =>
        /\ cycles[1].context.uptime = formatMissionTime(metrics.uptime)
        /\ cycles[1].context.recentEvent = toFixed(telemetry.thrust, 1)
        /\ cycles[1].context.propulsionStatus = toFixed(telemetry.thrust, 2)
        /\ cycles[1].context.coverageIntensity = coverageIndex

\* what C20 asks of a call made with the network off: it has settled with
\* a member of the fallback pool, and no request went to generateContent
\* (no parts were sent, no reply came)
NoRequest(cycle) ==
    /\ cycle.phase = "settled"
    /\ cycle.path = "offline"
    /\ cycle.parts = <<>>
    /\ cycle.reply = <<>>
    /\ cycle.msg \in FallbackPool(service)

\* C20: a call of generatePrecisionCaption made while navigator.onLine is
\* false issues no request and resolves with a member of the fallback
\* pool, in both versions of the service and whatever the payload.
C20_OfflineNoRequest ==
    /\ \A i \in 1 .. Len(cycles) : ~cycles[i].onLine => NoRequest(cycles[i])
    /\ (Completed /\ ~lastCycle[1].onLine) => NoRequest(lastCycle[1])

\* the other version of the service was called with the network off and a
\* payload that has every field it reads, image included, and the call has
\* ended
C20_Witness ==
    /\ service = "part_000"
    /\ Completed
    /\ ~lastCycle[1].onLine
    /\ Has(lastCycle[1].context, "lockStrength")
    /\ Has(lastCycle[1].context, "coverageIntensity")
    /\ Has(lastCycle[1].context, "imageData")
    /\ aiMessage \in FallbackPool("part_000")

\* while the mission is aborted the mission interval does not fire, no
\* cycle starts, no Flight Director entry is logged, and a due tick can run
AbortedHolds ==
    /\ []((variant = "auto" /\ Mounted /\ ~isLaunched) =>
            /\ missionInterval = <<>>
            /\ ((Due(ticker) /\ Idle) => ENABLED TickAuto))
    /\ [][ (variant = "auto" /\ ~isLaunched) =>
             /\ fired' = fired
             /\ Len(cycles') <= Len(cycles)
             /\ (logs' # logs => logs'[1].message # "Flight Director") ]_vars

\* C21: while isLaunched is false no cycle starts, no Flight Director entry
\* is logged and the ticker keeps running; and once the mission is launched
\* again a cycle starts within one mission period.  With the timers on time
\* the last part says that the interval set up at the relaunch is left to
\* fire: until it has fired, no step sets it up again for a later time.
C21_AbortAndResume ==
    /\ AbortedHolds
    /\ [][ ( /\ variant = "auto"
             /\ "lateness" \notin sampled
             /\ clicks = 2
             /\ fired = 0
             /\ isLaunched /\ isLaunched'
             /\ missionInterval # <<>> /\ missionInterval' # <<>>
             /\ fired' = fired )
           => missionInterval'[1] <= missionInterval[1] ]_vars

\* C22: in the manual component, after an 'offline' event and until the
\* next 'online' event (the window is offline and the last network event
\* handled is the offline one), the status is not ONLINE, whatever cycles
\* start and complete in between.
C22_StatusFollowsNetwork ==
    ( /\ variant = "manual"
      /\ Mounted
      /\ events > 0
      /\ ~onLine
      /\ lastEvent = << NetworkEvent(FALSE) >> )
    => status # "ONLINE"
====
